---- MODULE Spec2Model ----
(***************************************************************************)
(* Model of the RINEX epoch codec, src/rinex/src/epoch/mod.rs:             *)
(*   parse_in_timescale / parse_utc : text -> (Epoch, EpochFlag) | error   *)
(*   format : (Epoch, Option<EpochFlag>, Type, revision) -> text           *)
(* Text is a sequence of one-character strings.  Unsigned 32-bit values    *)
(* are kept as two 16-bit limbs so that the width of `ns` is preserved.    *)
(***************************************************************************)
EXTENDS Integers, Sequences, FiniteSets, TLC

VARIABLES content, ts, pc, locals, result, fmt, out

vars == <<content, ts, pc, locals, result, fmt, out>>

(***************************************************************************)
(* Bounds of the model.                                                    *)
(***************************************************************************)
\* revisions handed to format are 2..MaxRevision
MaxRevision == 3
\* number of blanks that may precede and follow a record text
MaxPad == 1

(***************************************************************************)
(* Characters and decimal text.                                            *)
(***************************************************************************)
DigitChars == <<"0", "1", "2", "3", "4", "5", "6", "7", "8", "9">>

IsDigit(c) == \E i \in 1..10 : DigitChars[i] = c

DigitVal(c) == (CHOOSE i \in 1..10 : DigitChars[i] = c) - 1

DigitChar(n) == DigitChars[n + 1]

IsAsciiWhitespace(c) == c = " "

AllDigits(s) == \A i \in 1..Len(s) : IsDigit(s[i])

RECURSIVE Repeat(_, _)
Repeat(c, n) == IF n <= 0 THEN << >> ELSE <<c>> \o Repeat(c, n - 1)

\* decimal digits of a natural number, most significant first
RECURSIVE NatToText(_)
NatToText(n) ==
    IF n < 10 THEN <<DigitChar(n)>>
    ELSE NatToText(n \div 10) \o <<DigitChar(n % 10)>>

\* Display of a signed integer
IntToText(n) == IF n < 0 THEN <<"-">> \o NatToText(-n) ELSE NatToText(n)

\* Rust "{:0w}": sign first, then zeros up to the width
FmtZero(n, w) ==
    LET digits == NatToText(IF n < 0 THEN -n ELSE n)
        sign == IF n < 0 THEN <<"-">> ELSE << >>
    IN  sign \o Repeat("0", w - Len(sign) - Len(digits)) \o digits

\* Rust "{:>w}": right-aligned, blanks on the left
FmtRight(n, w) ==
    LET t == IntToText(n)
    IN  Repeat(" ", w - Len(t)) \o t

\* the value of a string of decimal digits known to fit a machine word
RECURSIVE DigitsValue(_)
DigitsValue(s) ==
    IF Len(s) = 0 THEN 0
    ELSE 10 * DigitsValue(SubSeq(s, 1, Len(s) - 1)) + DigitVal(s[Len(s)])

RECURSIVE StripZeros(_)
StripZeros(s) ==
    IF Len(s) > 1 /\ s[1] = "0" THEN StripZeros(Tail(s)) ELSE s

\* a <= b for two digit strings without leading zeros
RECURSIVE DigitsLeq(_, _)
DigitsLeq(a, b) ==
    IF Len(a) # Len(b) THEN Len(a) < Len(b)
    ELSE IF Len(a) = 0 THEN TRUE
    ELSE IF a[1] # b[1] THEN DigitVal(a[1]) < DigitVal(b[1])
    ELSE DigitsLeq(Tail(a), Tail(b))

U8_MAX_TEXT == <<"2", "5", "5">>
I32_MAX_TEXT == <<"2", "1", "4", "7", "4", "8", "3", "6", "4", "7">>
I32_MIN_TEXT == <<"2", "1", "4", "7", "4", "8", "3", "6", "4", "8">>
U32_MAX_TEXT == <<"4", "2", "9", "4", "9", "6", "7", "2", "9", "5">>

(***************************************************************************)
(* u32 arithmetic on two 16-bit limbs.                                     *)
(***************************************************************************)
LIMB == 65536

U32(n) == [hi |-> n \div LIMB, lo |-> n % LIMB]

U32Zero == [hi |-> 0, lo |-> 0]

\* x * k + a for 0 <= k <= 100, 0 <= a < 10: the wrapped product and
\* whether the exact one left the 32-bit range
U32MulAdd(x, k, a) ==
    LET l == x.lo * k + a
        h == x.hi * k + (l \div LIMB)
    IN  [val |-> [hi |-> h % LIMB, lo |-> l % LIMB], over |-> h >= LIMB]

RECURSIVE U32FromDigits(_)
U32FromDigits(s) ==
    IF Len(s) = 0 THEN U32Zero
    ELSE U32MulAdd(U32FromDigits(SubSeq(s, 1, Len(s) - 1)), 10,
                   DigitVal(s[Len(s)])).val

\* x * 100^n
RECURSIVE U32MulPow100(_, _)
U32MulPow100(x, n) ==
    IF n = 0 THEN [val |-> x, over |-> FALSE]
    ELSE LET p == U32MulPow100(x, n - 1)
             q == U32MulAdd(p.val, 100, 0)
         IN  [val |-> q.val, over |-> p.over \/ q.over]

FitsInt(x) == x.hi < 32768

U32ToInt(x) == x.hi * LIMB + x.lo

\* x / (2 * half), for any u32 x
U32DivEven(x, half) ==
    LET x2 == (x.hi \div 2) * LIMB + (((x.hi % 2) * LIMB + x.lo) \div 2)
    IN  x2 \div half

(***************************************************************************)
(* Integer parsing, as str::parse::<T>() does it: an optional sign ("+",   *)
(* and "-" for a signed type), at least one digit, digits only, and the    *)
(* value inside the type's range.                                          *)
(***************************************************************************)
Unsigned(s) == IF Len(s) > 0 /\ s[1] = "+" THEN Tail(s) ELSE s

WellFormedDigits(s) == Len(s) > 0 /\ AllDigits(s)

ParseU8(s) ==
    LET d == Unsigned(s)
    IN  IF WellFormedDigits(d) /\ DigitsLeq(StripZeros(d), U8_MAX_TEXT)
        THEN [ok |-> TRUE, val |-> DigitsValue(StripZeros(d))]
        ELSE [ok |-> FALSE, val |-> 0]

ParseU32(s) ==
    LET d == Unsigned(s)
    IN  IF WellFormedDigits(d) /\ DigitsLeq(StripZeros(d), U32_MAX_TEXT)
        THEN [ok |-> TRUE, val |-> U32FromDigits(StripZeros(d))]
        ELSE [ok |-> FALSE, val |-> U32Zero]

ParseI32(s) ==
    LET neg == Len(s) > 0 /\ s[1] = "-"
        d == IF neg THEN Tail(s) ELSE Unsigned(s)
        z == StripZeros(d)
    IN  IF ~WellFormedDigits(d) THEN [ok |-> FALSE, val |-> 0]
        ELSE IF neg /\ z = I32_MIN_TEXT THEN [ok |-> TRUE, val |-> -2147483647 - 1]
        ELSE IF DigitsLeq(z, I32_MAX_TEXT)
        THEN [ok |-> TRUE, val |-> IF neg THEN -DigitsValue(z) ELSE DigitsValue(z)]
        ELSE [ok |-> FALSE, val |-> 0]

(***************************************************************************)
(* str::split_ascii_whitespace: the maximal runs of non-blank characters.  *)
(***************************************************************************)
RECURSIVE SplitFrom(_, _, _)
SplitFrom(s, i, cur) ==
    IF i > Len(s) THEN (IF Len(cur) > 0 THEN <<cur>> ELSE << >>)
    ELSE IF IsAsciiWhitespace(s[i])
         THEN (IF Len(cur) > 0 THEN <<cur>> ELSE << >>) \o SplitFrom(s, i + 1, << >>)
         ELSE SplitFrom(s, i + 1, Append(cur, s[i]))

split_ascii_whitespace(s) == SplitFrom(s, 1, << >>)

\* str::find('.'): index of the first dot, 0 when there is none
FindDot(item) ==
    IF \E i \in 1..Len(item) : item[i] = "."
    THEN CHOOSE i \in 1..Len(item) :
             item[i] = "." /\ \A j \in 1..(i - 1) : item[j] # "."
    ELSE 0

(***************************************************************************)
(* EpochFlag (module flag, declared at mod.rs:6): its codes in order, its  *)
(* FromStr and its Display.                                                *)
(***************************************************************************)
EpochFlags == <<"Ok", "PowerFailure", "AntennaBeingMoved", "NewSiteOccupation",
                "HeaderInformationFollows", "ExternalEvent", "CycleSlip">>

EpochFlagDefault == "Ok"

EpochFlagFromStr(tok) ==
    IF Len(tok) = 1 /\ IsDigit(tok[1]) /\ DigitVal(tok[1]) <= 6
    THEN [ok |-> TRUE, val |-> EpochFlags[DigitVal(tok[1]) + 1]]
    ELSE [ok |-> FALSE, val |-> EpochFlagDefault]

EpochFlagDisplay(f) ==
    <<DigitChar((CHOOSE i \in 1..Len(EpochFlags) : EpochFlags[i] = f) - 1)>>

(***************************************************************************)
(* The field loop of parse_in_timescale.                                   *)
(***************************************************************************)
NAV_SCALE_POW == 4    \* ns *= 100_000_000 = 100^4
OBS_SCALE_POW == 1    \* ns *= 100
NAV_TOKEN_LEN == 7

InitLocals ==
    [y |-> 0, m |-> 0, d |-> 0, hh |-> 0, mm |-> 0, ss |-> 0,
     ns |-> U32Zero, flag |-> EpochFlagDefault]

Running(l) == [status |-> "Run", err |-> "None", l |-> l]
Failed(l, e) == [status |-> "Err", err |-> e, l |-> l]
Panicked(l) == [status |-> "Panic", err |-> "None", l |-> l]

\* YearFix with the pivot one year late
YearFixLatePivot(y) ==
    IF y < 100 THEN (IF y <= 80 THEN y + 2000 ELSE y + 1900) ELSE y

\* old RINEX problem: YY is sometimes encoded on two digits
YearFix(y) ==
    IF y < 100 THEN (IF y < 80 THEN y + 2000 ELSE y + 1900) ELSE y

IsNav(item) == Len(item) < NAV_TOKEN_LEN

\* field 5, the seconds token; overflow_checks tells whether the build traps
\* arithmetic overflow (a panic) or wraps modulo 2^32
SecondsField(l, item, overflow_checks) ==
    LET dot == FindDot(item) IN
    IF dot > 0 THEN
        LET is_nav == IsNav(item)
            s == ParseU8(SubSeq(item, 1, dot - 1))
            n == ParseU32(SubSeq(item, dot + 1, Len(item)))
            p == U32MulPow100(n.val, IF is_nav THEN NAV_SCALE_POW ELSE OBS_SCALE_POW)
        IN  IF ~s.ok THEN Failed(l, "SecondsField")
            ELSE IF ~n.ok THEN Failed([l EXCEPT !.ss = s.val], "NanosecondsField")
            ELSE IF p.over /\ overflow_checks
                 THEN Panicked([l EXCEPT !.ss = s.val, !.ns = n.val])
            ELSE Running([l EXCEPT !.ss = s.val, !.ns = p.val])
    ELSE
        LET s == ParseU8(item)
        IN  IF s.ok THEN Running([l EXCEPT !.ss = s.val])
            ELSE Failed(l, "SecondsField")

U8Field(l, item, name, err) ==
    LET v == ParseU8(item)
    IN  IF v.ok THEN Running([l EXCEPT ![name] = v.val]) ELSE Failed(l, err)

\* ParseField with the flag looked for one token late
ParseFieldLateFlag(l, field_index, item, overflow_checks) ==
    CASE field_index = 0 ->
            LET v == ParseI32(item)
            IN  IF v.ok THEN Running([l EXCEPT !.y = YearFix(v.val)])
                ELSE Failed(l, "YearField")
      [] field_index = 1 -> U8Field(l, item, "m", "MonthField")
      [] field_index = 2 -> U8Field(l, item, "d", "DayField")
      [] field_index = 3 -> U8Field(l, item, "hh", "HoursField")
      [] field_index = 4 -> U8Field(l, item, "mm", "MinutesField")
      [] field_index = 5 -> SecondsField(l, item, overflow_checks)
      [] field_index = 7 ->
            LET f == EpochFlagFromStr(item)
            IN  IF f.ok THEN Running([l EXCEPT !.flag = f.val])
                ELSE Failed(l, "EpochFlag")
      [] OTHER -> Running(l)

ParseField(l, field_index, item, overflow_checks) ==
    CASE field_index = 0 ->
            LET v == ParseI32(item)
            IN  IF v.ok THEN Running([l EXCEPT !.y = YearFix(v.val)])
                ELSE Failed(l, "YearField")
      [] field_index = 1 -> U8Field(l, item, "m", "MonthField")
      [] field_index = 2 -> U8Field(l, item, "d", "DayField")
      [] field_index = 3 -> U8Field(l, item, "hh", "HoursField")
      [] field_index = 4 -> U8Field(l, item, "mm", "MinutesField")
      [] field_index = 5 -> SecondsField(l, item, overflow_checks)
      [] field_index = 6 ->
            LET f == EpochFlagFromStr(item)
            IN  IF f.ok THEN Running([l EXCEPT !.flag = f.val])
                ELSE Failed(l, "EpochFlag")
      [] OTHER -> Running(l)

\* the for loop over the first n tokens; `?` leaves at the first failure
RECURSIVE FieldLoop(_, _, _)
FieldLoop(tokens, n, overflow_checks) ==
    IF n = 0 THEN Running(InitLocals)
    ELSE LET before == FieldLoop(tokens, n - 1, overflow_checks)
         IN  IF before.status # "Run" THEN before
             ELSE ParseField(before.l, n - 1, tokens[n], overflow_checks)

(***************************************************************************)
(* The calendar of hifitime, as the codec uses it.  An Epoch is a time     *)
(* scale tag and a TAI position: days since 1900-01-01, second of the day, *)
(* nanosecond of the second.                                               *)
(***************************************************************************)
TimeScales == {"UTC", "GPST", "GST", "BDT"}

SECONDS_PER_DAY == 86400
NANOS_PER_SECOND == 1000000000
\* TAI - UTC, the leap seconds in force since 2017
TAI_MINUS_UTC == 37
\* days from 1900-01-01 to 1970-01-01
DAYS_1900_TO_1970 == 25567

\* TAI minus the scale's own reading
ScaleOffset(scale) ==
    CASE scale = "UTC" -> TAI_MINUS_UTC
      [] scale = "GPST" -> 19
      [] scale = "GST" -> 19
      [] scale = "BDT" -> 33
      [] OTHER -> 0

NoEpoch == [time_scale |-> "None", days |-> 0, secs |-> 0, nanos |-> 0]

is_leap_year(y) == (y % 4 = 0 /\ y % 100 # 0) \/ y % 400 = 0

usual_days_per_month(m) ==
    CASE m = 2 -> 28
      [] m \in {4, 6, 9, 11} -> 30
      [] OTHER -> 31

\* ns is a u32
is_gregorian_valid(y, m, d, hh, mm, ss, ns) ==
    LET max_seconds ==
            IF m \in {6, 12} /\ d = usual_days_per_month(m) /\ hh = 23 /\ mm = 59
            THEN 60 ELSE 59
    IN  /\ m >= 1 /\ m <= 12
        /\ d >= 1 /\ d <= 31
        /\ hh <= 24
        /\ mm <= 59
        /\ ss <= max_seconds
        /\ FitsInt(ns) /\ U32ToInt(ns) <= NANOS_PER_SECOND
        /\ (d <= usual_days_per_month(m) \/ (m = 2 /\ is_leap_year(y) /\ d <= 29))

\* days from 1900-01-01 to the civil date
DaysFromCivil(y, m, d) ==
    LET yy == IF m <= 2 THEN y - 1 ELSE y
        era == yy \div 400
        yoe == yy - era * 400
        mp == IF m > 2 THEN m - 3 ELSE m + 9
        doy == (153 * mp + 2) \div 5 + d - 1
        doe == yoe * 365 + yoe \div 4 - yoe \div 100 + doy
    IN  era * 146097 + doe - 719468 + DAYS_1900_TO_1970

CivilFromDays(days) ==
    LET z == days - DAYS_1900_TO_1970 + 719468
        era == z \div 146097
        doe == z - era * 146097
        yoe == (doe - doe \div 1460 + doe \div 36524 - doe \div 146096) \div 365
        doy == doe - (365 * yoe + yoe \div 4 - yoe \div 100)
        mp == (5 * doy + 2) \div 153
        d == doy - (153 * mp + 2) \div 5 + 1
        m == IF mp < 10 THEN mp + 3 ELSE mp - 9
        y == yoe + era * 400 + (IF m <= 2 THEN 1 ELSE 0)
    IN  [y |-> y, m |-> m, d |-> d]

\* carries nanoseconds into seconds and seconds into days
MkEpoch(scale, days, secs, nanos) ==
    LET s1 == secs + nanos \div NANOS_PER_SECOND
    IN  [time_scale |-> scale,
         days |-> days + s1 \div SECONDS_PER_DAY,
         secs |-> s1 % SECONDS_PER_DAY,
         nanos |-> nanos % NANOS_PER_SECOND]

\* Epoch::maybe_from_gregorian, on a valid date
EpochFromGregorian(y, m, d, hh, mm, ss, nanos, scale) ==
    MkEpoch(scale, DaysFromCivil(y, m, d),
            hh * 3600 + mm * 60 + ss + ScaleOffset(scale), nanos)

\* Epoch + Duration::from_seconds(k)
EpochAddSeconds(e, k) == MkEpoch(e.time_scale, e.days, e.secs + k, e.nanos)

to_gregorian_utc(e) ==
    LET u == MkEpoch(e.time_scale, e.days, e.secs - TAI_MINUS_UTC, e.nanos)
        c == CivilFromDays(u.days)
    IN  [y |-> c.y, m |-> c.m, d |-> c.d,
         hh |-> u.secs \div 3600, mm |-> (u.secs % 3600) \div 60,
         ss |-> u.secs % 60, nanos |-> u.nanos]

\* Epoch::from_gregorian_utc: expect() on an invalid date
from_gregorian_utc(y, m, d, hh, mm, ss, ns) ==
    IF is_gregorian_valid(y, m, d, hh, mm, ss, ns)
    THEN [status |-> "Ok",
          epoch |-> EpochFromGregorian(y, m, d, hh, mm, ss, U32ToInt(ns), "UTC")]
    ELSE [status |-> "Panic", epoch |-> NoEpoch]

\* the pieces of "YYYY-MM-DDThh:mm:ss.fffffffff SCALE"
IsoDelimiter(c) == c \in {"-", "T", ":", ".", " "}

RECURSIVE IsoSplit(_, _, _)
IsoSplit(s, i, cur) ==
    IF i > Len(s) THEN <<cur>>
    ELSE IF IsoDelimiter(s[i]) /\ Len(cur) > 0 /\ IsDigit(cur[1])
         THEN <<cur>> \o IsoSplit(s, i + 1, << >>)
         ELSE IsoSplit(s, i + 1, Append(cur, s[i]))

ScaleText(scale) ==
    CASE scale = "UTC" -> <<"U", "T", "C">>
      [] scale = "GPST" -> <<"G", "P", "S", "T">>
      [] scale = "GST" -> <<"G", "S", "T">>
      [] scale = "BDT" -> <<"B", "D", "T">>
      [] OTHER -> <<"T", "A", "I">>

RECURSIVE Pow10(_)
Pow10(n) == IF n = 0 THEN 1 ELSE 10 * Pow10(n - 1)

\* Epoch::from_str on a Gregorian date-time: the fraction is a decimal
\* fraction of a second, read to nanoseconds
EpochFromStr(s) ==
    LET p == IsoSplit(s, 1, << >>)
        numeric == /\ Len(p) = 8
                   /\ \A i \in 1..7 : WellFormedDigits(p[i]) /\ Len(p[i]) <= 9
        scales == {sc \in TimeScales : ScaleText(sc) = p[8]}
    IN  IF ~numeric \/ scales = {} THEN [ok |-> FALSE, epoch |-> NoEpoch]
        ELSE LET v == [i \in 1..6 |-> DigitsValue(p[i])]
                 frac == DigitsValue(p[7]) * Pow10(9 - Len(p[7]))
                 scale == CHOOSE sc \in scales : TRUE
             IN  IF is_gregorian_valid(v[1], v[2], v[3], v[4], v[5], v[6], U32(frac))
                 THEN [ok |-> TRUE,
                       epoch |-> EpochFromGregorian(v[1], v[2], v[3], v[4], v[5],
                                                    v[6], frac, scale)]
                 ELSE [ok |-> FALSE, epoch |-> NoEpoch]

(***************************************************************************)
(* parse_in_timescale                                                      *)
(***************************************************************************)
NS_TO_FRACTION == 100000000

Returned(status, err, epoch, flag, l) ==
    [status |-> status, err |-> err, epoch |-> epoch, flag |-> flag, l |-> l]

\* the calendar string handed to Epoch::from_str for a scale other than UTC
IsoText(l, scale) ==
    FmtZero(l.y, 4) \o <<"-">> \o FmtZero(l.m, 2) \o <<"-">> \o FmtZero(l.d, 2)
    \o <<"T">> \o FmtZero(l.hh, 2) \o <<":">> \o FmtZero(l.mm, 2) \o <<":">>
    \o FmtZero(l.ss, 2) \o <<".">>
    \o FmtZero(U32DivEven(l.ns, NS_TO_FRACTION \div 2), 9)
    \o <<" ">> \o ScaleText(scale)

BuildUtc(l) ==
    IF l.y = 0 THEN Returned("Err", "FormatError", NoEpoch, l.flag, l)
    ELSE LET e == from_gregorian_utc(l.y, l.m, l.d, l.hh, l.mm, l.ss, l.ns)
         IN  Returned(e.status, "None", e.epoch, l.flag, l)

BuildInScale(l, scale) ==
    IF l.y = 0 THEN Returned("Err", "FormatError", NoEpoch, l.flag, l)
    ELSE LET e == EpochFromStr(IsoText(l, scale))
         IN  IF e.ok THEN Returned("Ok", "None", e.epoch, l.flag, l)
             ELSE Returned("Err", "EpochError", NoEpoch, l.flag, l)

parse_in_timescale(text, scale, overflow_checks) ==
    LET tokens == split_ascii_whitespace(text)
        loop == FieldLoop(tokens, Len(tokens), overflow_checks)
    IN  IF loop.status # "Run"
        THEN Returned(loop.status, loop.err, NoEpoch, loop.l.flag, loop.l)
        ELSE IF scale = "UTC" THEN BuildUtc(loop.l)
        ELSE BuildInScale(loop.l, scale)

parse_utc(text, overflow_checks) == parse_in_timescale(text, "UTC", overflow_checks)

(***************************************************************************)
(* format                                                                  *)
(***************************************************************************)
Types == {"ObservationData", "NavigationData", "IonosphereMaps", "Other"}

None == "None"

unwrap_or(flag, dflt) == IF flag = None THEN dflt ELSE flag

\* TwoDigitYear without the fix for files recorded prior 21st century
TwoDigitYearNoFix(y) == y - 2000

\* old RINEX wants 2 digit YY field
TwoDigitYear(y) == IF y - 2000 < 0 THEN y - 2000 + 100 ELSE y - 2000

Sp(n) == Repeat(" ", n)

\* FormatObservation with the seconds zero-padded at revision 3
FormatObservationZeroSeconds(g, flag, revision) ==
    IF revision < 3
    THEN FmtZero(TwoDigitYear(g.y), 2) \o Sp(1) \o FmtRight(g.m, 2) \o Sp(1)
         \o FmtRight(g.d, 2) \o Sp(1) \o FmtRight(g.hh, 2) \o Sp(1)
         \o FmtRight(g.mm, 2) \o Sp(1) \o FmtRight(g.ss, 2) \o <<".">>
         \o FmtZero(g.nanos \div 100, 7) \o Sp(2)
         \o EpochFlagDisplay(unwrap_or(flag, "Ok"))
    ELSE FmtZero(g.y, 4) \o Sp(1) \o FmtZero(g.m, 2) \o Sp(1)
         \o FmtZero(g.d, 2) \o Sp(1) \o FmtZero(g.hh, 2) \o Sp(1)
         \o FmtZero(g.mm, 2) \o Sp(1) \o FmtZero(g.ss, 2) \o <<".">>
         \o FmtZero(g.nanos \div 100, 7) \o Sp(2)
         \o EpochFlagDisplay(unwrap_or(flag, "Ok"))

FormatObservation(g, flag, revision) ==
    IF revision < 3
    THEN FmtZero(TwoDigitYear(g.y), 2) \o Sp(1) \o FmtRight(g.m, 2) \o Sp(1)
         \o FmtRight(g.d, 2) \o Sp(1) \o FmtRight(g.hh, 2) \o Sp(1)
         \o FmtRight(g.mm, 2) \o Sp(1) \o FmtRight(g.ss, 2) \o <<".">>
         \o FmtZero(g.nanos \div 100, 7) \o Sp(2)
         \o EpochFlagDisplay(unwrap_or(flag, "Ok"))
    ELSE FmtZero(g.y, 4) \o Sp(1) \o FmtZero(g.m, 2) \o Sp(1)
         \o FmtZero(g.d, 2) \o Sp(1) \o FmtZero(g.hh, 2) \o Sp(1)
         \o FmtZero(g.mm, 2) \o Sp(1) \o FmtRight(g.ss, 2) \o <<".">>
         \o FmtZero(g.nanos \div 100, 7) \o Sp(2)
         \o EpochFlagDisplay(unwrap_or(flag, "Ok"))

\* FormatNavigation with the legacy fraction taken at 100 ns
FormatNavigationFineFraction(g, revision) ==
    IF revision < 3
    THEN FmtZero(TwoDigitYear(g.y), 2) \o Sp(1) \o FmtRight(g.m, 2) \o Sp(1)
         \o FmtRight(g.d, 2) \o Sp(1) \o FmtRight(g.hh, 2) \o Sp(1)
         \o FmtRight(g.mm, 2) \o Sp(1) \o FmtRight(g.ss, 2) \o <<".">>
         \o FmtRight(g.nanos \div 100, 1)
    ELSE FmtZero(g.y, 4) \o Sp(1) \o FmtZero(g.m, 2) \o Sp(1)
         \o FmtZero(g.d, 2) \o Sp(1) \o FmtZero(g.hh, 2) \o Sp(1)
         \o FmtZero(g.mm, 2) \o Sp(1) \o FmtZero(g.ss, 2)

FormatNavigation(g, revision) ==
    IF revision < 3
    THEN FmtZero(TwoDigitYear(g.y), 2) \o Sp(1) \o FmtRight(g.m, 2) \o Sp(1)
         \o FmtRight(g.d, 2) \o Sp(1) \o FmtRight(g.hh, 2) \o Sp(1)
         \o FmtRight(g.mm, 2) \o Sp(1) \o FmtRight(g.ss, 2) \o <<".">>
         \o FmtRight(g.nanos \div 100000000, 1)
    ELSE FmtZero(g.y, 4) \o Sp(1) \o FmtZero(g.m, 2) \o Sp(1)
         \o FmtZero(g.d, 2) \o Sp(1) \o FmtZero(g.hh, 2) \o Sp(1)
         \o FmtZero(g.mm, 2) \o Sp(1) \o FmtZero(g.ss, 2)

FormatIonosphereMaps(g) ==
    FmtZero(g.y, 4) \o Sp(3) \o FmtRight(g.m, 2) \o Sp(4)
    \o FmtRight(g.d, 2) \o Sp(4) \o FmtRight(g.hh, 2) \o Sp(4)
    \o FmtRight(g.mm, 2) \o Sp(4) \o FmtRight(g.ss, 2)

\* FormatOther with the fields zero-padded at revision 3
FormatOtherZeroPadded(g, revision) ==
    IF revision < 3
    THEN FmtZero(TwoDigitYear(g.y), 2) \o Sp(1) \o FmtRight(g.m, 2) \o Sp(1)
         \o FmtRight(g.d, 2) \o Sp(1) \o FmtRight(g.hh, 2) \o Sp(1)
         \o FmtRight(g.mm, 2) \o Sp(1) \o FmtRight(g.ss, 2)
    ELSE FmtZero(g.y, 4) \o Sp(1) \o FmtZero(g.m, 2) \o Sp(1)
         \o FmtZero(g.d, 2) \o Sp(1) \o FmtZero(g.hh, 2) \o Sp(1)
         \o FmtZero(g.mm, 2) \o Sp(1) \o FmtZero(g.ss, 2)

FormatOther(g, revision) ==
    IF revision < 3
    THEN FmtZero(TwoDigitYear(g.y), 2) \o Sp(1) \o FmtRight(g.m, 2) \o Sp(1)
         \o FmtRight(g.d, 2) \o Sp(1) \o FmtRight(g.hh, 2) \o Sp(1)
         \o FmtRight(g.mm, 2) \o Sp(1) \o FmtRight(g.ss, 2)
    ELSE FmtZero(g.y, 4) \o Sp(1) \o FmtRight(g.m, 2) \o Sp(1)
         \o FmtRight(g.d, 2) \o Sp(1) \o FmtRight(g.hh, 2) \o Sp(1)
         \o FmtRight(g.mm, 2) \o Sp(1) \o FmtRight(g.ss, 2)

\* Hifitime V3 does not have a gregorian decomposition method
Decompose(epoch) ==
    CASE epoch.time_scale = "GPST" -> to_gregorian_utc(EpochAddSeconds(epoch, 37))
      [] epoch.time_scale = "GST" -> to_gregorian_utc(EpochAddSeconds(epoch, 19))
      [] epoch.time_scale = "BDT" -> to_gregorian_utc(EpochAddSeconds(epoch, 19))
      [] OTHER -> to_gregorian_utc(epoch)

format(epoch, flag, t, revision) ==
    LET g == Decompose(epoch)
    IN  CASE t = "ObservationData" -> FormatObservation(g, flag, revision)
          [] t = "NavigationData" -> FormatNavigation(g, revision)
          [] t = "IonosphereMaps" -> FormatIonosphereMaps(g)
          [] OTHER -> FormatOther(g, revision)

(***************************************************************************)
(* The record texts the codec is run on: the layouts of the RINEX record   *)
(* kinds, written column by column, and texts that are no timestamp.       *)
(***************************************************************************)
\* n in w columns, every column a digit
FixedDigits(n, w) == [i \in 1..w |-> DigitChar((n \div Pow10(w - i)) % 10)]

\* n < 100 in two columns, the first one padc when n < 10
Field2(n, padc) == IF n < 10 THEN <<padc, DigitChar(n)>> ELSE FixedDigits(n, 2)

Dates ==
    { [y |-> 1980, m |-> 1, d |-> 6], [y |-> 2000, m |-> 2, d |-> 29],
      [y |-> 2021, m |-> 12, d |-> 21], [y |-> 2079, m |-> 10, d |-> 31] }

Times ==
    { [hh |-> 0, mm |-> 0, ss |-> 0], [hh |-> 9, mm |-> 7, ss |-> 30],
      [hh |-> 23, mm |-> 59, ss |-> 59] }

ObsFractions == {0, 1234567}
NavFractions == {0, 1, 9}
ObsFlagTokens == {<<"0">>, <<"1">>}

\* YY MM DD hh mm ss, blank-padded, the year on two digits
LegacyStem(dt, tm) ==
    FixedDigits(dt.y % 100, 2) \o <<" ">> \o Field2(dt.m, " ") \o <<" ">>
    \o Field2(dt.d, " ") \o <<" ">> \o Field2(tm.hh, " ") \o <<" ">>
    \o Field2(tm.mm, " ") \o <<" ">> \o Field2(tm.ss, " ")

\* YYYY MM DD hh mm, zero-padded
ModernStem(dt, tm) ==
    FixedDigits(dt.y, 4) \o <<" ">> \o Field2(dt.m, "0") \o <<" ">>
    \o Field2(dt.d, "0") \o <<" ">> \o Field2(tm.hh, "0") \o <<" ">>
    \o Field2(tm.mm, "0") \o <<" ">>

ObsV2Flagged ==
    { LegacyStem(dt, tm) \o <<".">> \o FixedDigits(f, 7) \o <<" ", " ">> \o fl :
        dt \in Dates, tm \in Times, f \in ObsFractions, fl \in ObsFlagTokens }

ObsV2Unflagged ==
    { LegacyStem(dt, tm) \o <<".">> \o FixedDigits(f, 7) :
        dt \in Dates, tm \in Times, f \in ObsFractions }

ObsV3Flagged ==
    { ModernStem(dt, tm) \o Field2(tm.ss, " ") \o <<".">> \o FixedDigits(f, 7)
        \o <<" ", " ">> \o fl :
        dt \in Dates, tm \in Times, f \in ObsFractions, fl \in ObsFlagTokens }

NavV2Texts ==
    { LegacyStem(dt, tm) \o <<".">> \o FixedDigits(f, 1) :
        dt \in Dates, tm \in Times, f \in NavFractions }

NavV3Texts ==
    { ModernStem(dt, tm) \o Field2(tm.ss, "0") : dt \in Dates, tm \in Times }

IonexTexts ==
    { FixedDigits(dt.y, 4) \o Sp(3) \o Field2(dt.m, " ") \o Sp(4)
        \o Field2(dt.d, " ") \o Sp(4) \o Field2(tm.hh, " ") \o Sp(4)
        \o Field2(tm.mm, " ") \o Sp(4) \o Field2(tm.ss, " ") :
        dt \in Dates, tm \in Times }

\* meteo and the other kinds, revision 3: YYYY and blank-padded fields
OtherV3Texts ==
    { FixedDigits(dt.y, 4) \o Sp(1) \o Field2(dt.m, " ") \o Sp(1)
        \o Field2(dt.d, " ") \o Sp(1) \o Field2(tm.hh, " ") \o Sp(1)
        \o Field2(tm.mm, " ") \o Sp(1) \o Field2(tm.ss, " ") :
        dt \in Dates, tm \in Times }

RecordTexts ==
    ObsV2Flagged \cup ObsV2Unflagged \cup ObsV3Flagged \cup NavV2Texts
    \cup NavV3Texts \cup IonexTexts \cup OtherV3Texts

\* a record text as it stands in a line: blanks before and after
Padded(S) ==
    { Sp(a) \o s \o Sp(b) : a \in 0..MaxPad, b \in 0..MaxPad, s \in S }

RECURSIVE Join(_)
Join(tokens) ==
    IF Len(tokens) = 0 THEN << >>
    ELSE IF Len(tokens) = 1 THEN tokens[1]
    ELSE tokens[1] \o <<" ">> \o Join(Tail(tokens))

N(n) == IntToText(n)

YearTokens ==
    { N(0), <<"0", "0">>, N(5), N(79), N(80), N(99), N(100), N(1999), N(2021),
      N(-1), N(-2000), <<"x">>, <<"+", "7", "9">>,
      <<"9", "9", "9", "9", "9", "9", "9", "9", "9", "9">> }

SecondsTokens ==
    { N(0), N(59), <<"0", ".", "0">>, <<"0", ".", "1">>, <<"5", "9", ".", "9">>,
      <<"0", ".", "0", "5">>, <<"0", ".", "1", "0">>, <<"0", ".", "4", "2">>,
      <<"0", ".", "4", "3">>, <<"0", ".", "1", "2", "3", "4">>,
      <<"0", ".", "1", "2", "3", "4", "5">>, <<"3", "0", ".", "1", "2", "3">>,
      <<"3", "0", ".", "1", "2", "3", "4">>,
      <<"0", ".", "1", "0", "0", "0", "0", "0", "0">>,
      <<"0", ".", "9", "9", "9", "9", "9", "9", "9", "9">>,
      <<"0", ".", "4", "2", "9", "4", "9", "6", "7", "2", "9", "6">>,
      <<".", "5">>, <<"5", ".">>, <<"0", ".", "5", "x">>, <<"x">>, N(256) }

FlagTokens ==
    { <<"0">>, <<"1">>, <<"2">>, <<"3">>, <<"4">>, <<"5">>, <<"6">>, <<"7">>,
      <<"x">>, <<"1", "0">>, <<"0", "1">>, <<"-", "1">> }

\* dates and times of day that are in range for a u8 and name no instant
BadCalendar ==
    { <<N(2021), N(13), N(1), N(0), N(0), N(0)>>,
      <<N(2021), N(0), N(1), N(0), N(0), N(0)>>,
      <<N(2021), N(2), N(30), N(0), N(0), N(0)>>,
      <<N(2021), N(2), N(29), N(0), N(0), N(0)>>,
      <<N(2021), N(4), N(31), N(0), N(0), N(0)>>,
      <<N(2021), N(1), N(0), N(0), N(0), N(0)>>,
      <<N(2021), N(1), N(1), N(25), N(0), N(0)>>,
      <<N(2021), N(1), N(1), N(0), N(60), N(0)>>,
      <<N(2021), N(1), N(1), N(0), N(0), N(61)>>,
      <<N(2021), N(1), N(1), N(0), N(0), N(60)>> }

BadFields ==
    { <<N(2021), <<"x">>, N(1), N(0), N(0), N(0)>>,
      <<N(2021), N(1), N(256), N(0), N(0), N(0)>>,
      <<N(2021), N(1), N(1), N(-1), N(0), N(0)>>,
      <<N(2021), N(1), N(1), N(0), <<"1", ".", "5">>, N(0)>> }

\* fewer than six tokens
ShortRecords ==
    { << >>, <<N(2021)>>, <<N(21), N(12)>>, <<N(21), N(12), N(21)>>,
      <<N(21), N(12), N(21), N(0), N(0)>> }

OddTexts ==
    { Join(<<y, N(1), N(1), N(0), N(0), N(0)>>) : y \in YearTokens }
    \cup { Join(<<y>>) : y \in YearTokens }
    \cup { Join(<<N(21), N(1), N(1), N(0), N(7), s>>) : s \in SecondsTokens }
    \cup { Join(<<N(21), N(1), N(1), N(0), N(7), s, f>>) :
             s \in {<<"3", "0", ".", "0", "0", "0", "0", "0", "0", "0">>,
                    <<"0", ".", "4", "3">>, <<"x">>},
             f \in FlagTokens }
    \cup { Join(<<N(21), N(1), N(1), N(0), N(7), N(30), <<"1">>, <<"x">>, <<"2">>>>) }
    \cup { Join(t) : t \in BadCalendar \cup BadFields \cup ShortRecords }

Inputs == Padded(RecordTexts) \cup OddTexts

\* the texts parsed in a time scale other than UTC
ScaleInputs == NavV2Texts \cup ObsV3Flagged \cup OddTexts

Revisions == 2..MaxRevision

(***************************************************************************)
(* The codec as a state machine: one call of parse_in_timescale, then, on  *)
(* the instant it returned, one call of format.                            *)
(***************************************************************************)
NoFmt == [t |-> "None", revision |-> 0, flag |-> None]

NoResult == [status |-> "None", err |-> "None", epoch |-> NoEpoch, flag |-> "Ok"]

Init ==
    /\ ts \in TimeScales
    /\ content \in (IF ts = "UTC" THEN Inputs ELSE ScaleInputs)
    /\ pc = "start"
    /\ locals = InitLocals
    /\ result = NoResult
    /\ fmt = NoFmt
    /\ out = << >>

\* a build either traps arithmetic overflow or wraps
Parse ==
    /\ pc = "start"
    /\ \E overflow_checks \in BOOLEAN :
         LET r == parse_in_timescale(content, ts, overflow_checks)
         IN  /\ result' = [status |-> r.status, err |-> r.err,
                           epoch |-> r.epoch, flag |-> r.flag]
             /\ locals' = r.l
    /\ pc' = "parsed"
    /\ UNCHANGED <<content, ts, fmt, out>>

Format ==
    /\ pc = "parsed"
    /\ result.status = "Ok"
    /\ \E t \in Types, revision \in Revisions, flag \in {None, result.flag} :
         /\ fmt' = [t |-> t, revision |-> revision, flag |-> flag]
         /\ out' = format(result.epoch, flag, t, revision)
    /\ pc' = "formatted"
    /\ UNCHANGED <<content, ts, locals, result>>

Next == Parse \/ Format

Spec == Init /\ [][Next]_vars

(***************************************************************************)
(* What the properties below read off a state.                             *)
(***************************************************************************)
Tokens == split_ascii_whitespace(content)

RECURSIVE TrimBlanks(_)
TrimBlanks(s) ==
    IF Len(s) = 0 THEN s
    ELSE IF s[1] = " " THEN TrimBlanks(Tail(s))
    ELSE IF s[Len(s)] = " " THEN TrimBlanks(SubSeq(s, 1, Len(s) - 1))
    ELSE s

Core == TrimBlanks(content)

\* the calendar reading of the returned instant
Greg == to_gregorian_utc(result.epoch)

\* the first n fields are read without an error and without an overflow
FieldsRead(n) ==
    /\ Len(Tokens) >= n
    /\ FieldLoop(Tokens, n, TRUE).status = "Run"

FormattedAs(t) == pc = "formatted" /\ fmt.t = t

(***************************************************************************)
(* C4                                                                      *)
(***************************************************************************)
ExpectedYear(v) == IF v >= 100 THEN v ELSE IF v < 80 THEN 2000 + v ELSE 1900 + v

\* C4: a year token that parses to v < 100 gives the year 2000+v when v < 80
\* and 1900+v when v >= 80; v >= 100 is kept.  That year is the one held when
\* the instant is built, and the year of the instant returned for UTC.
C4_YearDisambiguation ==
    (pc # "start" /\ Len(Tokens) >= 1 /\ ParseI32(Tokens[1]).ok) =>
        LET v == ParseI32(Tokens[1]).val
        IN  /\ locals.y = ExpectedYear(v)
            /\ (ts = "UTC" /\ result.status = "Ok") => Greg.y = ExpectedYear(v)

C4_Witness ==
    /\ pc = "parsed" /\ ts = "UTC" /\ result.status = "Ok"
    /\ Tokens[1] = <<"8", "0">>
    /\ locals.y = 1980 /\ Greg.y = 1980

(***************************************************************************)
(* C3                                                                      *)
(***************************************************************************)
\* C3: a legacy navigation text "YY MM DD hh mm ss.f" parses (parse_utc) to an
\* instant in UTC with flag Ok and f * 100,000,000 ns, and
\* format(instant, None, NavigationData, 2) gives the text back.
C3_NavV2RoundTrip ==
    (pc # "start" /\ ts = "UTC" /\ content \in NavV2Texts) =>
        /\ result.status = "Ok"
        /\ result.flag = "Ok"
        /\ result.epoch.time_scale = "UTC"
        /\ Greg.nanos = DigitVal(content[Len(content)]) * 100000000
        /\ (FormattedAs("NavigationData") /\ fmt.revision = 2 /\ fmt.flag = None)
              => out = content

C3_Witness ==
    /\ FormattedAs("NavigationData") /\ fmt.revision = 2 /\ fmt.flag = None
    /\ ts = "UTC" /\ content \in NavV2Texts
    /\ content[Len(content)] = "9" /\ Greg.nanos = 900000000
    /\ out = content

(***************************************************************************)
(* C1                                                                      *)
(***************************************************************************)
ObsV2Call ==
    /\ FormattedAs("ObservationData") /\ fmt.revision < 3
    /\ fmt.flag = result.flag
    /\ ts = "UTC"

\* C1, as claimed: every legacy observation text of 6 or 7 fields, parsed in
\* UTC and formatted as ObservationData at a revision below 3 with the parsed
\* flag, comes back byte for byte.
C1_ObsV2RoundTripExact ==
    (ObsV2Call /\ Core \in ObsV2Flagged \cup ObsV2Unflagged) => out = content

\* C1, amended: the text comes back without its leading and trailing blanks
\* when it carries the flag token; a text of 6 fields comes back followed by
\* two blanks and the flag 0.
C1_ObsV2RoundTrip ==
    /\ (ObsV2Call /\ Core \in ObsV2Flagged) => out = Core
    /\ (ObsV2Call /\ Core \in ObsV2Unflagged) => out = Core \o <<" ", " ", "0">>

C1_Witness ==
    /\ ObsV2Call /\ Core \in ObsV2Flagged
    /\ content # Core
    /\ result.flag = "PowerFailure"
    /\ Greg.y = 1980 /\ Greg.nanos = 123456700
    /\ out = Core

(***************************************************************************)
(* C2                                                                      *)
(***************************************************************************)
ModernTexts(t) ==
    CASE t = "ObservationData" -> ObsV3Flagged
      [] t = "NavigationData" -> NavV3Texts
      [] t = "IonosphereMaps" -> IonexTexts
      [] OTHER -> OtherV3Texts

ModernCall ==
    /\ pc = "formatted" /\ fmt.revision >= 3
    /\ fmt.flag = result.flag
    /\ ts = "UTC"
    /\ Core \in ModernTexts(fmt.t)

\* C2, as claimed: every modern text of each of the four record kinds, parsed
\* in UTC and formatted with the same kind and revision, comes back byte for
\* byte.
C2_ModernRoundTripExact == ModernCall => out = content

\* C2, amended: it comes back without its leading and trailing blanks.
C2_ModernRoundTrip == ModernCall => out = Core

C2_Witness ==
    /\ ModernCall /\ fmt.t = "ObservationData"
    /\ content # Core
    /\ result.flag = "PowerFailure"
    /\ Greg.ss = 30 /\ Greg.nanos = 123456700
    /\ out = Core

C2_WitnessOther ==
    /\ ModernCall /\ fmt.t = "Other" /\ Greg.m = 2 /\ out = Core

(***************************************************************************)
(* C9                                                                      *)
(***************************************************************************)
OtherV3Call == FormattedAs("Other") /\ fmt.revision >= 3

\* what format reads off the instant
Shown == Decompose(result.epoch)

NavV3Layout(g) ==
    FixedDigits(g.y, 4) \o <<" ">> \o Field2(g.m, "0") \o <<" ">>
    \o Field2(g.d, "0") \o <<" ">> \o Field2(g.hh, "0") \o <<" ">>
    \o Field2(g.mm, "0") \o <<" ">> \o Field2(g.ss, "0")

OtherV3Layout(g) ==
    FixedDigits(g.y, 4) \o <<" ">> \o Field2(g.m, " ") \o <<" ">>
    \o Field2(g.d, " ") \o <<" ">> \o Field2(g.hh, " ") \o <<" ">>
    \o Field2(g.mm, " ") \o <<" ">> \o Field2(g.ss, " ")

\* C9, as claimed: for the kind Other at a revision of 3 or more, format gives
\* a 4-digit year and month, day, hour, minute and second each zero-padded to
\* two columns, whole seconds and no flag: the NavigationData text.
C9_OtherV3ZeroPadded == OtherV3Call => out = NavV3Layout(Shown)

\* C9, amended: the five fields are blank-padded to two columns, not
\* zero-padded; the text is the NavigationData one exactly when no field is
\* below 10.
C9_OtherV3BlankPadded ==
    OtherV3Call =>
        /\ out = OtherV3Layout(Shown)
        /\ (out = format(result.epoch, fmt.flag, "NavigationData", fmt.revision))
             <=> (\A f \in {Shown.m, Shown.d, Shown.hh, Shown.mm, Shown.ss} : f >= 10)

C9_Witness ==
    /\ OtherV3Call
    /\ Shown.m = 1 /\ Shown.ss = 30
    /\ out[6] = " " /\ out[7] = "1"
    /\ Len(out) = 19

(***************************************************************************)
(* C5                                                                      *)
(***************************************************************************)
\* a u32 in decimal
RECURSIVE U32Text(_)
U32Text(x) ==
    LET r == (x.hi % 10) * LIMB + x.lo
        q == [hi |-> x.hi \div 10 + (r \div 10) \div LIMB, lo |-> (r \div 10) % LIMB]
    IN  IF x.hi = 0 /\ x.lo < 10 THEN <<DigitChar(x.lo)>>
        ELSE U32Text(q) \o <<DigitChar(r % 10)>>

IntegerPart(item) == SubSeq(item, 1, FindDot(item) - 1)
FractionPart(item) == SubSeq(item, FindDot(item) + 1, Len(item))

\* the seconds token is reached and its parts parse
SecondsParsed ==
    /\ Len(Tokens) >= 6
    /\ FieldLoop(Tokens, 5, TRUE).status = "Run"
    /\ IF FindDot(Tokens[6]) > 0
       THEN ParseU8(IntegerPart(Tokens[6])).ok /\ ParseU32(FractionPart(Tokens[6])).ok
       ELSE ParseU8(Tokens[6]).ok

\* the fraction times 100,000,000 for a token shorter than 7 characters, times
\* 100 for a longer one, 0 without a decimal point: in decimal
ClaimedNanos(item) ==
    IF FindDot(item) = 0 THEN <<"0">>
    ELSE StripZeros(Unsigned(FractionPart(item))
                    \o Repeat("0", IF Len(item) < 7 THEN 8 ELSE 2))

\* C5: the nanoseconds parse holds after the seconds token are the fraction
\* digits, read as an integer, times 100,000,000 when the token is shorter
\* than 7 characters and times 100 when it is not; 0 without a decimal point.
C5_FractionByLength ==
    (pc # "start" /\ SecondsParsed) => U32Text(locals.ns) = ClaimedNanos(Tokens[6])

(***************************************************************************)
(* C6                                                                      *)
(***************************************************************************)
FlagOfToken(tok) ==
    CASE tok = <<"0">> -> "Ok"
      [] tok = <<"1">> -> "PowerFailure"
      [] tok = <<"2">> -> "AntennaBeingMoved"
      [] tok = <<"3">> -> "NewSiteOccupation"
      [] tok = <<"4">> -> "HeaderInformationFollows"
      [] tok = <<"5">> -> "ExternalEvent"
      [] tok = <<"6">> -> "CycleSlip"
      [] OTHER -> "Unknown"

\* C6: once the six fields before it are read, no token at index 6 leaves the
\* flag Ok; the tokens "0".."6" give Ok, PowerFailure, AntennaBeingMoved,
\* NewSiteOccupation, HeaderInformationFollows, ExternalEvent, CycleSlip; any
\* other token makes parse return the flag error and no instant.
C6_FlagDecoding ==
    /\ (pc # "start" /\ Len(Tokens) < 7 /\ FieldsRead(Len(Tokens))) =>
          /\ locals.flag = "Ok"
          /\ result.status = "Ok" => result.flag = "Ok"
    /\ (pc # "start" /\ FieldsRead(6) /\ Len(Tokens) >= 7) =>
          IF FlagOfToken(Tokens[7]) # "Unknown"
          THEN /\ locals.flag = FlagOfToken(Tokens[7])
               /\ result.err # "EpochFlag"
               /\ result.status = "Ok" => result.flag = FlagOfToken(Tokens[7])
          ELSE /\ result.status = "Err" /\ result.err = "EpochFlag"
               /\ result.epoch = NoEpoch

C6_Witness ==
    /\ pc = "parsed" /\ FieldsRead(6) /\ Len(Tokens) >= 7
    /\ Tokens[7] = <<"6">>
    /\ result.status = "Ok" /\ result.flag = "CycleSlip"

C6_WitnessError ==
    /\ pc = "parsed" /\ FieldsRead(6) /\ Len(Tokens) >= 7
    /\ Tokens[7] = <<"7">>
    /\ result.status = "Err" /\ result.err = "EpochFlag"

C6_WitnessDefault ==
    /\ pc = "parsed" /\ Len(Tokens) = 6 /\ result.status = "Ok" /\ result.flag = "Ok"

(***************************************************************************)
(* C7                                                                      *)
(***************************************************************************)
\* C7: a text whose only token is the year "0" fails, in every time scale,
\* with the structural error FormatError, and no instant is constructed.
C7_ZeroYearIsFormatError ==
    (pc # "start" /\ Tokens = << <<"0">> >>) =>
        result.status = "Err" /\ result.err = "FormatError"

(***************************************************************************)
(* C8                                                                      *)
(***************************************************************************)
\* C8: parse_in_timescale ends with Ok or a typed error on every text and in
\* every time scale; it never panics.
C8_NeverPanics ==
    pc # "start" => result.status \in {"Ok", "Err"}

(***************************************************************************)
(* C10                                                                     *)
(***************************************************************************)
SubSecond == FitsInt(locals.ns) /\ U32ToInt(locals.ns) < NANOS_PER_SECOND

\* C10: the instant returned for a time scale other than UTC carries the
\* sub-second value of the text: "0.1" and "0.1000000" give 100,000,000 ns.
C10_ScaleKeepsSubSecond ==
    (pc # "start" /\ ts # "UTC" /\ result.status = "Ok" /\ SubSecond) =>
        result.epoch.nanos = U32ToInt(locals.ns)

(***************************************************************************)
(* C11                                                                     *)
(***************************************************************************)
\* the seconds token has a decimal point and both of its parts parse
FractionParsed == SecondsParsed /\ FindDot(Tokens[6]) > 0

\* the product the code forms for the seconds token: its wrapped value and
\* whether the exact product left the u32 range
NanosProduct ==
    U32MulPow100(ParseU32(FractionPart(Tokens[6])).val,
                 IF IsNav(Tokens[6]) THEN NAV_SCALE_POW ELSE OBS_SCALE_POW)

C11_NoOverflow == (pc # "start" /\ FractionParsed) => ~NanosProduct.over

C11_BelowOneSecond ==
    (pc # "start" /\ FractionParsed /\ ~NanosProduct.over) =>
        /\ locals.ns = NanosProduct.val
        /\ SubSecond

\* C11: for every seconds token whose integer and fractional parts parse, the
\* nanoseconds are computed without leaving the unsigned 32-bit range and are
\* strictly below 1,000,000,000.
C11_NanosAreSubSecond == C11_NoOverflow /\ C11_BelowOneSecond

====
